---- MODULE Spec2Model ----
(***************************************************************************)
(* Model of the mailer-service Go SDK (package mailersdk).                  *)
(*                                                                         *)
(* The repository holds three revisions of the same thin client:           *)
(*   "hmac"  - src/client.go          (requests go through hmac.Client)    *)
(*   "plain" - src/unnamed/part_000   (net/http, no context on requests)   *)
(*   "ctx"   - src/unnamed/part_001   (net/http, request bound to ctx,     *)
(*                                     structured and raw list calls)      *)
(*                                                                         *)
(* A Go string or []byte is a sequence of one-character strings, so that    *)
(* concatenation is \o, equality is byte equality, and escaping, JSON       *)
(* decoding and path building are computed character by character.          *)
(***************************************************************************)
EXTENDS Integers, Sequences, FiniteSets, TLC

(***************************************************************************)
(* Characters                                                              *)
(***************************************************************************)
Digits == {"0", "1", "2", "3", "4", "5", "6", "7", "8", "9"}

LowerLetters ==
    {"a", "b", "c", "d", "e", "f", "g", "h", "i", "j", "k", "l", "m",
     "n", "o", "p", "q", "r", "s", "t", "u", "v", "w", "x", "y", "z"}

UpperLetters ==
    {"A", "B", "C", "D", "E", "F", "G", "H", "I", "J", "K", "L", "M",
     "N", "O", "P", "Q", "R", "S", "T", "U", "V", "W", "X", "Y", "Z"}

\* unicode.ToLower restricted to ASCII, as used by the case-insensitive
\* match of JSON object keys against struct field names.
ToLowerTable ==
    [c \in UpperLetters |->
        CASE c = "A" -> "a" [] c = "B" -> "b" [] c = "C" -> "c" [] c = "D" -> "d"
          [] c = "E" -> "e" [] c = "F" -> "f" [] c = "G" -> "g" [] c = "H" -> "h"
          [] c = "I" -> "i" [] c = "J" -> "j" [] c = "K" -> "k" [] c = "L" -> "l"
          [] c = "M" -> "m" [] c = "N" -> "n" [] c = "O" -> "o" [] c = "P" -> "p"
          [] c = "Q" -> "q" [] c = "R" -> "r" [] c = "S" -> "s" [] c = "T" -> "t"
          [] c = "U" -> "u" [] c = "V" -> "v" [] c = "W" -> "w" [] c = "X" -> "x"
          [] c = "Y" -> "y" [] OTHER -> "z"]

ToLower(c) == IF c \in UpperLetters THEN ToLowerTable[c] ELSE c

\* strings.EqualFold on ASCII strings.
EqualFold(s, t) ==
    /\ Len(s) = Len(t)
    /\ \A i \in 1..Len(s) : ToLower(s[i]) = ToLower(t[i])

\* The quote character of JSON text.
Quote == "\""

\* s[i], or the empty string past the end of s (end of input).
At(s, i) == IF i >= 1 /\ i <= Len(s) THEN s[i] ELSE ""

\* strings.Join(parts, sep)
RECURSIVE Join(_, _)
Join(parts, sep) ==
    IF Len(parts) = 0 THEN << >>
    ELSE IF Len(parts) = 1 THEN parts[1]
    ELSE parts[1] \o sep \o Join(Tail(parts), sep)

\* strings.TrimSuffix(s, "/"): one slash less.
TrimSuffixSlash(s) ==
    IF Len(s) > 0 /\ s[Len(s)] = "/" THEN SubSeq(s, 1, Len(s) - 1) ELSE s

\* strings.TrimRight(s, "/")
RECURSIVE TrimRightSlash(_)
TrimRightSlash(s) ==
    IF Len(s) > 0 /\ s[Len(s)] = "/"
    THEN TrimRightSlash(SubSeq(s, 1, Len(s) - 1))
    ELSE s

DigitChar(d) ==
    CASE d = 0 -> "0" [] d = 1 -> "1" [] d = 2 -> "2" [] d = 3 -> "3"
      [] d = 4 -> "4" [] d = 5 -> "5" [] d = 6 -> "6" [] d = 7 -> "7"
      [] d = 8 -> "8" [] OTHER -> "9"

RECURSIVE NatString(_)
NatString(n) ==
    IF n < 10 THEN <<DigitChar(n)>>
    ELSE NatString(n \div 10) \o <<DigitChar(n % 10)>>

\* fmt.Sprintf("%d", n)
Itoa(n) == IF n < 0 THEN <<"-">> \o NatString(0 - n) ELSE NatString(n)

(***************************************************************************)
(* net/url escaping                                                        *)
(***************************************************************************)
\* RFC 3986 unreserved characters: never escaped.
Unreserved == LowerLetters \cup UpperLetters \cup Digits \cup {"-", "_", ".", "~"}

\* Reserved characters url.PathEscape leaves alone in a path segment
\* (shouldEscape, mode encodePathSegment: of "$&+,/:;=?@" only "/", ";",
\* "," and "?" are escaped).
PathSegmentSafe == {"$", "&", "+", ":", "=", "@"}

\* The %XX form of the characters of the model's alphabet that get escaped.
PercentHex(c) ==
    CASE c = " " -> <<"%", "2", "0">>
      [] c = "#" -> <<"%", "2", "3">>
      [] c = "$" -> <<"%", "2", "4">>
      [] c = "%" -> <<"%", "2", "5">>
      [] c = "&" -> <<"%", "2", "6">>
      [] c = "+" -> <<"%", "2", "B">>
      [] c = "," -> <<"%", "2", "C">>
      [] c = "/" -> <<"%", "2", "F">>
      [] c = ":" -> <<"%", "3", "A">>
      [] c = ";" -> <<"%", "3", "B">>
      [] c = "=" -> <<"%", "3", "D">>
      [] c = "?" -> <<"%", "3", "F">>
      [] c = "@" -> <<"%", "4", "0">>
      [] c = Quote -> <<"%", "2", "2">>
      [] c = "{" -> <<"%", "7", "B">>
      [] OTHER -> <<"%", "7", "D">>

\* The characters PercentHex is defined for (OTHER stands for "}").
Escapable ==
    {" ", "#", "$", "%", "&", "+", ",", "/", ":", ";", "=", "?", "@",
     Quote, "{", "}"}

\* url.PathEscape(s)
RECURSIVE PathEscape(_)
PathEscape(s) ==
    IF Len(s) = 0 THEN << >>
    ELSE (IF Head(s) \in Unreserved \cup PathSegmentSafe
          THEN <<Head(s)>>
          ELSE PercentHex(Head(s))) \o PathEscape(Tail(s))

\* url.QueryEscape(s): every reserved character is escaped and a space
\* becomes "+".
RECURSIVE QueryEscape(_)
QueryEscape(s) ==
    IF Len(s) = 0 THEN << >>
    ELSE (IF Head(s) \in Unreserved THEN <<Head(s)>>
          ELSE IF Head(s) = " " THEN <<"+">>
          ELSE PercentHex(Head(s))) \o QueryEscape(Tail(s))

\* pathSeg without the escaping.
pathSegUnescaped(s) == s

pathSeg(s) == PathEscape(s)

(***************************************************************************)
(* encoding/json: the scanner (syntax) and the decoding of a JSON value     *)
(* into a struct.  The alphabet of the model holds no backslash and no      *)
(* control character, so a JSON string ends at the next quote; the only     *)
(* white space is the space.  A scan returns the index after the value it   *)
(* read, or 0 when the text is not valid JSON there.                        *)
(***************************************************************************)
\* F(v), with v evaluated once, however often F uses it.
With(v, F(_)) == CHOOSE y \in {F(x) : x \in {v}} : TRUE

RECURSIVE SkipWS(_, _)
SkipWS(s, i) == IF At(s, i) = " " THEN SkipWS(s, i + 1) ELSE i

RECURSIVE ScanDigits(_, _)
ScanDigits(s, i) == IF At(s, i) \in Digits THEN ScanDigits(s, i + 1) ELSE i

ScanString(s, i) ==
    IF At(s, i) # Quote THEN 0
    ELSE With({j \in (i + 1)..Len(s) : s[j] = Quote}, LAMBDA ends :
             IF ends = {} THEN 0
             ELSE (CHOOSE j \in ends : \A k \in ends : j <= k) + 1)

\* The integer part of a number, from its first digit.
ScanInt(s, i) ==
    IF At(s, i) = "0" THEN i + 1
    ELSE IF At(s, i) \in Digits THEN ScanDigits(s, i)
    ELSE 0

\* The optional fraction of a number.
ScanFrac(s, i) ==
    IF i = 0 THEN 0
    ELSE IF At(s, i) # "." THEN i
    ELSE IF At(s, i + 1) \in Digits THEN ScanDigits(s, i + 1)
    ELSE 0

\* The optional exponent of a number.
ScanExp(s, i) ==
    IF i = 0 THEN 0
    ELSE IF At(s, i) \notin {"e", "E"} THEN i
    ELSE With(IF At(s, i + 1) \in {"+", "-"} THEN i + 2 ELSE i + 1, LAMBDA k :
             IF At(s, k) \in Digits THEN ScanDigits(s, k) ELSE 0)

ScanNumber(s, i) ==
    With(ScanInt(s, IF At(s, i) = "-" THEN i + 1 ELSE i), LAMBDA j1 :
    With(ScanFrac(s, j1), LAMBDA j2 : ScanExp(s, j2)))

ScanLiteral(s, i, lit) ==
    IF i + Len(lit) - 1 <= Len(s) /\ SubSeq(s, i, i + Len(lit) - 1) = lit
    THEN i + Len(lit)
    ELSE 0

LitTrue == <<"t", "r", "u", "e">>
LitFalse == <<"f", "a", "l", "s", "e">>
LitNull == <<"n", "u", "l", "l">>

RECURSIVE ScanValue(_, _)
RECURSIVE ScanElems(_, _)
RECURSIVE ScanMembers(_, _)

\* What follows an array element that ends before s[e]: a comma and the
\* next elements, or the closing bracket.
ScanElemsRest(s, e) ==
    IF e = 0 THEN 0
    ELSE With(SkipWS(s, e), LAMBDA k :
             IF At(s, k) = "," THEN With(SkipWS(s, k + 1), LAMBDA n : ScanElems(s, n))
             ELSE IF At(s, k) = "]" THEN k + 1
             ELSE 0)

\* The elements of an array from the first one to the closing bracket.
ScanElems(s, i) == With(ScanValue(s, i), LAMBDA e : ScanElemsRest(s, e))

\* What follows an object member that ends before s[ve].
ScanMembersRest(s, ve) ==
    IF ve = 0 THEN 0
    ELSE With(SkipWS(s, ve), LAMBDA m :
             IF At(s, m) = "," THEN With(SkipWS(s, m + 1), LAMBDA n : ScanMembers(s, n))
             ELSE IF At(s, m) = "}" THEN m + 1
             ELSE 0)

\* The value of an object member whose key ends before s[ke].
ScanMemberValue(s, ke) ==
    IF ke = 0 THEN 0
    ELSE With(SkipWS(s, ke), LAMBDA k :
             IF At(s, k) # ":" THEN 0
             ELSE With(SkipWS(s, k + 1), LAMBDA vs : ScanValue(s, vs)))

\* The members of an object from the first key to the closing brace.
ScanMembers(s, i) ==
    With(ScanString(s, i), LAMBDA ke :
    With(ScanMemberValue(s, ke), LAMBDA ve : ScanMembersRest(s, ve)))

ScanValue(s, i) ==
    With(At(s, i), LAMBDA c :
        CASE c = "{" -> With(SkipWS(s, i + 1), LAMBDA j :
                            IF At(s, j) = "}" THEN j + 1 ELSE ScanMembers(s, j))
          [] c = "[" -> With(SkipWS(s, i + 1), LAMBDA j :
                            IF At(s, j) = "]" THEN j + 1 ELSE ScanElems(s, j))
          [] c = Quote -> ScanString(s, i)
          [] c = "t" -> ScanLiteral(s, i, LitTrue)
          [] c = "f" -> ScanLiteral(s, i, LitFalse)
          [] c = "n" -> ScanLiteral(s, i, LitNull)
          [] c = "-" \/ c \in Digits -> ScanNumber(s, i)
          [] OTHER -> 0)

\* The JSON type of the valid value that starts at s[i].
ValueKind(s, i) ==
    With(At(s, i), LAMBDA c :
        CASE c = "{" -> "object"
          [] c = "[" -> "array"
          [] c = Quote -> "string"
          [] c = "t" \/ c = "f" -> "bool"
          [] c = "n" -> "null"
          [] OTHER -> "number")

\* The members of the valid object whose first key starts at s[i] (or whose
\* closing brace is s[i]), in order: key without quotes, and the value text.
RECURSIVE ObjectMembers(_, _)
ObjectMembers(s, i) ==
    IF At(s, i) # Quote THEN << >>
    ELSE With(ScanString(s, i), LAMBDA ke :
         With(SkipWS(s, SkipWS(s, ke) + 1), LAMBDA vs :
         With(ScanValue(s, vs), LAMBDA ve :
         With(SkipWS(s, ve), LAMBDA m :
             <<[key |-> SubSeq(s, i + 1, ke - 2), val |-> SubSeq(s, vs, ve - 1)]>>
             \o (IF At(s, m) = ","
                 THEN With(SkipWS(s, m + 1), LAMBDA n : ObjectMembers(s, n))
                 ELSE << >>)))))

\* Whether the JSON value v can be stored in a Go field of type ty; a null
\* is accepted by every field (and leaves a string, int or bool unchanged).
\* An int takes a number without fraction or exponent.
Storable(v, ty) ==
    With(ValueKind(v, 1), LAMBDA k :
        \/ k = "null"
        \/ ty = "string" /\ k = "string"
        \/ ty = "bool" /\ k = "bool"
        \/ ty = "int" /\ k = "number"
              /\ \A j \in 1..Len(v) : v[j] \in Digits \cup {"-"}
        \/ ty = "slice" /\ k = "array"
        \/ ty = "struct" /\ k = "object")

\* The index of the struct field a key names: the field whose JSON name is
\* the key, else the first whose name equals it under case folding; 0 when
\* the struct has no such field (the member is skipped).
FieldIndex(fields, key) ==
    With({f \in 1..Len(fields) : fields[f].name = key}, LAMBDA exact :
        IF exact # {} THEN CHOOSE f \in exact : \A g \in exact : f <= g
        ELSE With({f \in 1..Len(fields) : EqualFold(fields[f].name, key)}, LAMBDA fold :
                 IF fold # {} THEN CHOOSE f \in fold : \A g \in fold : f <= g
                 ELSE 0))

\* Stores one member into the struct: a member whose value does not fit its
\* field records an UnmarshalTypeError, and decoding goes on.
StoreMember(fields, m, acc) ==
    With(FieldIndex(fields, m.key), LAMBDA f :
        IF f = 0 THEN acc
        ELSE IF ~Storable(m.val, fields[f].type)
             THEN [acc EXCEPT !.err = TRUE]
        ELSE IF ValueKind(m.val, 1) = "null"
                  /\ fields[f].type \in {"string", "int", "bool"}
             THEN acc
        ELSE [acc EXCEPT !.vals[f] = m.val])

\* Stores the members of an object into the fields, in order.
RECURSIVE StoreMembers(_, _, _)
StoreMembers(fields, members, acc) ==
    IF Len(members) = 0 THEN acc
    ELSE With(StoreMember(fields, Head(members), acc), LAMBDA next :
             StoreMembers(fields, Tail(members), next))

\* The zero value of the struct: no field set.
ZeroStruct(fields) == [err |-> FALSE, vals |-> [f \in 1..Len(fields) |-> << >>]]

\* Decoding of the valid JSON value v into a struct: an object fills the
\* fields, null changes nothing, anything else is an UnmarshalTypeError.
DecodeValue(v, fields) ==
    With(ValueKind(v, 1), LAMBDA k :
        IF k = "object"
        THEN With(ObjectMembers(v, SkipWS(v, 2)), LAMBDA members :
                 StoreMembers(fields, members, ZeroStruct(fields)))
        ELSE IF k = "null" THEN ZeroStruct(fields)
        ELSE [ZeroStruct(fields) EXCEPT !.err = TRUE])

\* json.Unmarshal(data, &st): the whole of data must be one JSON value
\* (checkValid), else nothing is stored.
Unmarshal(data, fields) ==
    With(SkipWS(data, 1), LAMBDA b :
    With(ScanValue(data, b), LAMBDA e :
        IF e = 0 \/ SkipWS(data, e) # Len(data) + 1
        THEN [ZeroStruct(fields) EXCEPT !.err = TRUE]
        ELSE With(SubSeq(data, b, e - 1), LAMBDA v : DecodeValue(v, fields))))

\* json.NewDecoder(r).Decode(&st): the first JSON value of the stream is
\* decoded; what follows it is not read.
DecoderDecode(data, fields) ==
    With(SkipWS(data, 1), LAMBDA b :
    With(ScanValue(data, b), LAMBDA e :
        IF e = 0
        THEN [ZeroStruct(fields) EXCEPT !.err = TRUE]
        ELSE With(SubSeq(data, b, e - 1), LAMBDA v : DecodeValue(v, fields))))

\* The Go string held by a field decoded from a JSON string (the text
\* between the quotes), "" when the field was not set.
StringField(st, f) ==
    IF Len(st.vals[f]) < 2 THEN << >>
    ELSE SubSeq(st.vals[f], 2, Len(st.vals[f]) - 1)

(***************************************************************************)
(* Errors.  A Go error is the chain errors.Unwrap walks, outermost first;   *)
(* nil is the empty chain.  A link is an *APIError ("api"), an error made   *)
(* by fmt.Errorf ("fmt", with its text up to a wrapped cause) or an error   *)
(* of the transport or of the JSON decoder ("cause").                       *)
(***************************************************************************)
NilError == << >>

APIError(statusCode, message, body) ==
    <<[kind |-> "api", text |-> "", StatusCode |-> statusCode,
       Message |-> message, Body |-> body]>>

\* fmt.Errorf(text): a plain error without a cause.
Errorf(text) ==
    <<[kind |-> "fmt", text |-> text, StatusCode |-> 0,
       Message |-> << >>, Body |-> << >>]>>

\* An error returned by net/http, by the HMAC client or by the decoder.
CauseError(text) ==
    <<[kind |-> "cause", text |-> text, StatusCode |-> 0,
       Message |-> << >>, Body |-> << >>]>>

\* fmt.Errorf("%s: %w", wrapErr, err)
WrapError(wrapErr, err) == Errorf(wrapErr) \o err

\* IsAPIError(err): errors.As finds the first *APIError of the chain.
IsAPIError(err) == \E i \in 1..Len(err) : err[i].kind = "api"

\* The *APIError IsAPIError returns (when it returns true).
AsAPIError(err) ==
    err[CHOOSE i \in 1..Len(err) :
            /\ err[i].kind = "api"
            /\ \A j \in 1..(i - 1) : err[j].kind # "api"]

\* (*APIError).Error() without the fixed "mailer service returned status"
\* prefix: the status and the text that follows it.
APIErrorText(e) ==
    Itoa(e.StatusCode) \o <<":", " ">> \o (IF e.Message # << >> THEN e.Message ELSE e.Body)

\* The anonymous struct parseErrorResponse decodes into.
errorRespFields ==
    <<[name |-> <<"m", "e", "s", "s", "a", "g", "e">>, type |-> "string"],
      [name |-> <<"s", "u", "c", "c", "e", "s", "s">>, type |-> "bool"],
      [name |-> <<"s", "t", "a", "t", "u", "s">>, type |-> "int"],
      [name |-> <<"e", "r", "r", "o", "r">>, type |-> "string"]>>

\* parseErrorResponse with the derived message stored as Body too.
parseErrorResponseBodyIsMessage(statusCode, body) ==
    With(Unmarshal(body, errorRespFields), LAMBDA errorResp :
    With(StringField(errorResp, 1), LAMBDA Message :
    With(StringField(errorResp, 4), LAMBDA Error :
        IF ~errorResp.err /\ (Message # << >> \/ Error # << >>)
        THEN APIError(statusCode, IF Error = << >> THEN Message ELSE Error,
                      IF Error = << >> THEN Message ELSE Error)
        ELSE APIError(statusCode, body, body))))

\* parseErrorResponse with the message field preferred to the error field.
parseErrorResponseMessageFirst(statusCode, body) ==
    With(Unmarshal(body, errorRespFields), LAMBDA errorResp :
    With(StringField(errorResp, 1), LAMBDA Message :
    With(StringField(errorResp, 4), LAMBDA Error :
        IF ~errorResp.err /\ (Message # << >> \/ Error # << >>)
        THEN APIError(statusCode, IF Message = << >> THEN Error ELSE Message, body)
        ELSE APIError(statusCode, body, body))))

\* parseErrorResponse(statusCode, body)
parseErrorResponse(statusCode, body) ==
    With(Unmarshal(body, errorRespFields), LAMBDA errorResp :
    With(StringField(errorResp, 1), LAMBDA Message :
    With(StringField(errorResp, 4), LAMBDA Error :
    With(body, LAMBDA bodyStr :
        IF ~errorResp.err /\ (Message # << >> \/ Error # << >>)
        THEN APIError(statusCode, IF Error = << >> THEN Message ELSE Error, bodyStr)
        ELSE APIError(statusCode, bodyStr, bodyStr)))))

\* statusIn accepting every 2xx status.
statusInAny2xx(code, codes) == code >= 200 /\ code < 300

\* statusIn(code, codes)
statusIn(code, codes) == \E i \in 1..Len(codes) : code = codes[i]

StatusOK == 200

apiPathPrefix == <<"/", "a", "p", "i", "/", "v", "1">>

\* defaultTimeout, in seconds.
defaultTimeout == 10

(***************************************************************************)
(* Inputs                                                                  *)
(***************************************************************************)
\* The three revisions of the client held by the repository.
Revisions == {"hmac", "plain", "ctx"}

\* The goroutines that may call the client.
Callers == {"c1", "c2"}

\* Config.BaseURL: unset, a server without, with one and with two trailing
\* slashes, only a slash, and a text url.Parse rejects ("missing protocol
\* scheme").
BaseURLs == {<< >>, <<"h", "t", "t", "p", ":", "/", "/", "h">>, <<"h", "t", "t", "p", ":", "/", "/", "h", "/">>, <<"h", "t", "t", "p", ":", "/", "/", "h", "/", "/">>, <<"/">>, <<":">>}

\* Config.HMACSecret (revision "hmac" only).
Secrets == {<< >>, <<"k">>}

\* Config.Timeout in seconds: 0 (unset) up to MaxTimeout.
MaxTimeout == 1
Timeouts == 0..MaxTimeout

\* Identifiers passed to the get operations.
Ids == {<< >>, <<"m", "1">>, <<"a", "/", "b">>, <<"x", " ", "y", "?", "#">>}

\* Raw query strings passed to the raw-query list operations; the last one
\* is not well-formed and must be forwarded as it is.
QueryStrings == {<< >>, <<"p", "a", "g", "e", "=", "1", "&", "p", "e", "r", "_", "p", "a", "g", "e", "=", "2", "0">>, <<"q", "=", "a", "%", "2", "0", "b", "&", "&", "x", "=", " ", "y">>}

\* Fields of the structured list requests.
MaxPage == 2
Pages == (0 - 1)..MaxPage
PerPageSample == 50
PerPages == {0, PerPageSample}
Services == {<< >>, <<"a", "&", "b", " ", "c">>}
Types == {<< >>, <<"t">>}
MailStatuses == {<< >>, <<"s", "=", "1">>}
MailIDs == {<< >>, <<"m", "/", "1">>}

\* HTTP status codes the server answers with.
Statuses == {200, 201, 204, 404, 500}

\* Response bodies: success envelopes, error envelopes in each shape the
\* message derivation distinguishes, and texts that are no envelope.
Bodies ==
    {<< >>,
     <<"o", "o", "p", "s">>,
     <<"n", "u", "l", "l">>,
     <<"{", "}">>,
     <<"{", "\"", "e", "r", "r", "o", "r", "\"", ":", "\"", "X", "\"", ",", "\"", "m", "e", "s", "s", "a", "g", "e", "\"", ":", "\"", "Y", "\"", "}">>,
     <<"{", "\"", "m", "e", "s", "s", "a", "g", "e", "\"", ":", "\"", "Y", "\"", "}">>,
     <<"{", "\"", "e", "r", "r", "o", "r", "\"", ":", "\"", "\"", ",", "\"", "m", "e", "s", "s", "a", "g", "e", "\"", ":", "\"", "Y", "\"", "}">>,
     <<"{", "\"", "E", "r", "r", "o", "r", "\"", ":", "\"", "X", "\"", "}">>,
     <<"{", "\"", "e", "r", "r", "o", "r", "\"", ":", "\"", "X", "\"", ",", "\"", "s", "t", "a", "t", "u", "s", "\"", ":", "\"", "b", "a", "d", "\"", "}">>,
     <<"{", "\"", "e", "r", "r", "o", "r", "\"", ":", "5", ",", "\"", "m", "e", "s", "s", "a", "g", "e", "\"", ":", "\"", "Y", "\"", "}">>,
     <<"{", "\"", "e", "r", "r", "o", "r", "\"", ":", "\"", "X", "\"">>,
     <<"{", "\"", "s", "u", "c", "c", "e", "s", "s", "\"", ":", "t", "r", "u", "e", ",", "\"", "s", "t", "a", "t", "u", "s", "\"", ":", "2", "0", "0", ",", "\"", "d", "a", "t", "a", "\"", ":", "[", "]", "}">>,
     <<"{", "\"", "s", "u", "c", "c", "e", "s", "s", "\"", ":", "t", "r", "u", "e", ",", "\"", "s", "t", "a", "t", "u", "s", "\"", ":", "2", "0", "0", ",", "\"", "d", "a", "t", "a", "\"", ":", "{", "}", "}">>,
     <<"{", "\"", "d", "a", "t", "a", "\"", ":", "[", "]", "}", "x">>}

\* The inputs of the calls when several callers share the client: a sample
\* of the sets above, which keeps their interleavings enumerable.
FewBaseURLs == {<< >>, <<"h", "t", "t", "p", ":", "/", "/", "h", "/">>}
FewIds == {<< >>, <<"a", "/", "b">>}
FewQueryStrings == {<<"p", "a", "g", "e", "=", "1", "&", "p", "e", "r", "_", "p", "a", "g", "e", "=", "2", "0">>}
FewStatuses == {200, 404}
FewBodies ==
    {<<"o", "o", "p", "s">>,
     <<"{", "\"", "e", "r", "r", "o", "r", "\"", ":", "\"", "X", "\"", ",", "\"", "m", "e", "s", "s", "a", "g", "e", "\"", ":", "\"", "Y", "\"", "}">>,
     <<"{", "\"", "s", "u", "c", "c", "e", "s", "s", "\"", ":", "t", "r", "u", "e", ",", "\"", "s", "t", "a", "t", "u", "s", "\"", ":", "2", "0", "0", ",", "\"", "d", "a", "t", "a", "\"", ":", "[", "]", "}">>}

(***************************************************************************)
(* State                                                                   *)
(***************************************************************************)
VARIABLES
    rev,       \* the revision of the client that is built
    client,    \* what NewClient returned: the Client, or the failure
    active,    \* the callers that use the client
    pc,        \* per caller: "idle", "inflight" (in the transport), "returned"
    args,      \* per caller: the operation called and its arguments
    frame,     \* per caller: the arguments of the running do
    net,       \* per caller: the requests this call handed to the transport
    resp,      \* per caller: the response the transport returned, if any
    target,    \* per caller: the local variable result of the operation
    ret,       \* per caller: the values the operation returned
    ctxDone,   \* per caller: whether the caller's context is cancelled
    closed     \* per caller: number of resp.Body.Close() calls of this call

vars == <<rev, client, active, pc, args, frame, net, resp, target, ret, ctxDone, closed>>

callVars == <<pc, args, frame, net, resp, target, ret, ctxDone, closed>>

NoFilter ==
    [Page |-> 0, PerPage |-> 0, Service |-> << >>, Type |-> << >>,
     Status |-> << >>, MailID |-> << >>]

NoArgs == [op |-> "", id |-> << >>, queryString |-> << >>, req |-> NoFilter]

NoFrame == [successStatuses |-> << >>, result |-> "nil", wrapErr |-> ""]

NoReturn == [result |-> << >>, err |-> NilError]

NoClient ==
    [state |-> "none", config |-> [BaseURL |-> << >>, HMACSecret |-> << >>, Timeout |-> 0],
     baseURL |-> << >>, timeout |-> 0, transport |-> FALSE, err |-> NilError]

\* The response structs: List*Response and Get*Response.
listResponseFields ==
    <<[name |-> <<"s", "u", "c", "c", "e", "s", "s">>, type |-> "bool"],
      [name |-> <<"m", "e", "s", "s", "a", "g", "e">>, type |-> "string"],
      [name |-> <<"s", "t", "a", "t", "u", "s">>, type |-> "int"],
      [name |-> <<"t", "i", "m", "e", "s", "t", "a", "m", "p">>, type |-> "string"],
      [name |-> <<"d", "a", "t", "a">>, type |-> "slice"],
      [name |-> <<"p", "a", "g", "i", "n", "a", "t", "i", "o", "n">>, type |-> "struct"]>>

getResponseFields ==
    <<[name |-> <<"s", "u", "c", "c", "e", "s", "s">>, type |-> "bool"],
      [name |-> <<"m", "e", "s", "s", "a", "g", "e">>, type |-> "string"],
      [name |-> <<"s", "t", "a", "t", "u", "s">>, type |-> "int"],
      [name |-> <<"t", "i", "m", "e", "s", "t", "a", "m", "p">>, type |-> "string"],
      [name |-> <<"d", "a", "t", "a">>, type |-> "struct"]>>

ResultFields(kind) == IF kind = "list" THEN listResponseFields ELSE getResponseFields

\* var result XResponse: the zero value.
ZeroResult(kind) == ZeroStruct(ResultFields(kind)).vals

Init ==
    /\ rev \in Revisions
    /\ client = NoClient
    /\ active = {"c1"}
    /\ pc = [c \in Callers |-> "idle"]
    /\ args = [c \in Callers |-> NoArgs]
    /\ frame = [c \in Callers |-> NoFrame]
    /\ net = [c \in Callers |-> << >>]
    /\ resp = [c \in Callers |-> << >>]
    /\ target = [c \in Callers |-> << >>]
    /\ ret = [c \in Callers |-> NoReturn]
    /\ ctxDone = [c \in Callers |-> FALSE]
    /\ closed = [c \in Callers |-> 0]

\* The same, with every caller using the client.
InitConcurrent ==
    /\ rev \in Revisions
    /\ client = NoClient
    /\ active = Callers
    /\ pc = [c \in Callers |-> "idle"]
    /\ args = [c \in Callers |-> NoArgs]
    /\ frame = [c \in Callers |-> NoFrame]
    /\ net = [c \in Callers |-> << >>]
    /\ resp = [c \in Callers |-> << >>]
    /\ target = [c \in Callers |-> << >>]
    /\ ret = [c \in Callers |-> NoReturn]
    /\ ctxDone = [c \in Callers |-> FALSE]
    /\ closed = [c \in Callers |-> 0]

\* The set the inputs are drawn from: all of them for one caller, the
\* sample for several.
Sampled(all, few) == IF Cardinality(active) > 1 THEN few ELSE all

(***************************************************************************)
(* Construction                                                            *)
(***************************************************************************)
\* The configurations a caller can write for a revision: only the "hmac"
\* Config has the field HMACSecret.
Configs(r) ==
    [BaseURL : Sampled(BaseURLs, FewBaseURLs),
     HMACSecret : IF r = "hmac" THEN Secrets ELSE {<< >>},
     Timeout : Sampled(Timeouts, {0})]

\* NewClient with the check of the secret made before the check of the
\* base URL.
NewClientResultSecretFirst(r, config) ==
    IF r = "hmac" /\ config.HMACSecret = << >>
    THEN [NoClient EXCEPT !.state = "failed", !.config = config,
                          !.err = Errorf("HMAC secret is required")]
    ELSE IF config.BaseURL = << >>
    THEN [NoClient EXCEPT !.state = "failed", !.config = config,
                          !.err = Errorf("base URL is required")]
    ELSE [state |-> "ok", config |-> config,
          baseURL |-> TrimRightSlash(config.BaseURL),
          timeout |-> IF config.Timeout = 0 THEN defaultTimeout ELSE config.Timeout,
          transport |-> TRUE, err |-> NilError]

\* NewClient that takes Config.Timeout as it is.
NewClientResultNoDefault(r, config) ==
    IF config.BaseURL = << >>
    THEN [NoClient EXCEPT !.state = "failed", !.config = config,
                          !.err = Errorf("base URL is required")]
    ELSE IF r = "hmac" /\ config.HMACSecret = << >>
    THEN [NoClient EXCEPT !.state = "failed", !.config = config,
                          !.err = Errorf("HMAC secret is required")]
    ELSE [state |-> "ok", config |-> config,
          baseURL |-> TrimRightSlash(config.BaseURL),
          timeout |-> config.Timeout,
          transport |-> TRUE, err |-> NilError]

\* NewClient(config): the returned (*Client, error).
NewClientResult(r, config) ==
    IF config.BaseURL = << >>
    THEN [NoClient EXCEPT !.state = "failed", !.config = config,
                          !.err = Errorf("base URL is required")]
    ELSE IF r = "hmac" /\ config.HMACSecret = << >>
    THEN [NoClient EXCEPT !.state = "failed", !.config = config,
                          !.err = Errorf("HMAC secret is required")]
    ELSE [state |-> "ok", config |-> config,
          baseURL |-> TrimRightSlash(config.BaseURL),
          timeout |-> IF config.Timeout = 0 THEN defaultTimeout ELSE config.Timeout,
          transport |-> TRUE, err |-> NilError]

NewClient ==
    /\ client.state = "none"
    /\ \E config \in Configs(rev) : client' = NewClientResult(rev, config)
    /\ UNCHANGED <<rev, active, callVars>>

(***************************************************************************)
(* Request paths                                                           *)
(***************************************************************************)
\* The text an operation of revision "ctx" puts before apiPathPrefix: there
\* the operations build the whole URL, elsewhere doRequest (or the HMAC
\* client) adds the base URL.
PathBase(r, cl) == IF r = "ctx" THEN cl.baseURL ELSE << >>

\* A raw list path that always carries the "?".
RawListPathAlwaysMarked(base, resource, queryString) ==
    base \o apiPathPrefix \o resource \o <<"?">> \o queryString

\* ListMails, ListTemplates, ListAttachments (raw query) and List*WithQuery.
RawListPath(base, resource, queryString) ==
    base \o apiPathPrefix \o resource
         \o (IF queryString # << >> THEN <<"?">> \o queryString ELSE << >>)

\* queryParams of ListMails with the string values put in as they are.
MailsQueryParamsUnescaped(req) ==
    (IF req.Page > 0 THEN <<<<"p", "a", "g", "e", "=">> \o Itoa(req.Page)>> ELSE << >>)
    \o (IF req.PerPage > 0 THEN <<<<"p", "e", "r", "_", "p", "a", "g", "e", "=">> \o Itoa(req.PerPage)>> ELSE << >>)
    \o (IF req.Service # << >> THEN <<<<"s", "e", "r", "v", "i", "c", "e", "=">> \o req.Service>> ELSE << >>)
    \o (IF req.Type # << >> THEN <<<<"t", "y", "p", "e", "=">> \o req.Type>> ELSE << >>)
    \o (IF req.Status # << >> THEN <<<<"s", "t", "a", "t", "u", "s", "=">> \o req.Status>> ELSE << >>)

\* queryParams of ListMails(ctx, req)
MailsQueryParams(req) ==
    (IF req.Page > 0 THEN <<<<"p", "a", "g", "e", "=">> \o Itoa(req.Page)>> ELSE << >>)
    \o (IF req.PerPage > 0 THEN <<<<"p", "e", "r", "_", "p", "a", "g", "e", "=">> \o Itoa(req.PerPage)>> ELSE << >>)
    \o (IF req.Service # << >> THEN <<<<"s", "e", "r", "v", "i", "c", "e", "=">> \o QueryEscape(req.Service)>> ELSE << >>)
    \o (IF req.Type # << >> THEN <<<<"t", "y", "p", "e", "=">> \o QueryEscape(req.Type)>> ELSE << >>)
    \o (IF req.Status # << >> THEN <<<<"s", "t", "a", "t", "u", "s", "=">> \o QueryEscape(req.Status)>> ELSE << >>)

\* queryParams of ListTemplates(ctx, req)
TemplatesQueryParams(req) ==
    (IF req.Page > 0 THEN <<<<"p", "a", "g", "e", "=">> \o Itoa(req.Page)>> ELSE << >>)
    \o (IF req.PerPage > 0 THEN <<<<"p", "e", "r", "_", "p", "a", "g", "e", "=">> \o Itoa(req.PerPage)>> ELSE << >>)

\* queryParams of ListAttachments(ctx, req)
AttachmentsQueryParams(req) ==
    (IF req.Page > 0 THEN <<<<"p", "a", "g", "e", "=">> \o Itoa(req.Page)>> ELSE << >>)
    \o (IF req.PerPage > 0 THEN <<<<"p", "e", "r", "_", "p", "a", "g", "e", "=">> \o Itoa(req.PerPage)>> ELSE << >>)
    \o (IF req.MailID # << >> THEN <<<<"m", "a", "i", "l", "_", "i", "d", "=">> \o QueryEscape(req.MailID)>> ELSE << >>)

\* The path of a structured list operation, from its queryParams.
FilterListPath(base, resource, queryParams) ==
    base \o apiPathPrefix \o resource
         \o (IF Len(queryParams) > 0 THEN <<"?">> \o Join(queryParams, <<"&">>) ELSE << >>)

\* The path of a get operation.
GetPath(base, resource, id) ==
    base \o apiPathPrefix \o resource \o <<"/">> \o pathSeg(id)

\* The structured requests of revision "ctx".
ListMailsRequests ==
    {[NoFilter EXCEPT !.Page = p, !.PerPage = pp, !.Service = s, !.Type = t, !.Status = st] :
        p \in Sampled(Pages, {0}), pp \in PerPages, s \in Sampled(Services, {<< >>}),
        t \in Sampled(Types, {<< >>}), st \in Sampled(MailStatuses, {<< >>})}

ListTemplatesRequests ==
    {[NoFilter EXCEPT !.Page = p, !.PerPage = pp] :
        p \in Sampled(Pages, {0}), pp \in PerPages}

ListAttachmentsRequests ==
    {[NoFilter EXCEPT !.Page = p, !.PerPage = pp, !.MailID = m] :
        p \in Sampled(Pages, {0}), pp \in PerPages, m \in Sampled(MailIDs, {<< >>})}

(***************************************************************************)
(* The transport                                                           *)
(***************************************************************************)
HasPrefix(s, p) == Len(s) >= Len(p) /\ SubSeq(s, 1, Len(p)) = p

\* url.Parse, as far as the URLs of the model go: a URL that starts with a
\* colon has no protocol scheme and is rejected.
ParseableURL(url) == At(url, 1) # ":"

\* Whether a server can be reached at the URL: it names the http scheme
\* and a host.
Routable(url) ==
    /\ HasPrefix(url, <<"h", "t", "t", "p", ":", "/", "/">>)
    /\ At(url, Len(<<"h", "t", "t", "p", ":", "/", "/">>) + 1) \notin {"", "/"}

\* doRequest that sets the Content-Type header on every request.
doRequestAlwaysJSON(r, cl, method, path, body) ==
    [method |-> method,
     url |-> IF r = "ctx" THEN path ELSE cl.baseURL \o path,
     hasBody |-> body # "nil",
     contentType |-> "application/json",
     ctx |-> r = "ctx",
     timeout |-> cl.timeout]

\* The request doRequest builds (revision "plain"), do builds (revision
\* "ctx") or the HMAC client is asked for (revision "hmac").  Only revision
\* "ctx" binds the request to the caller's context.  timeout is the Timeout
\* of the http.Client (or HMAC client) that sends it.
doRequest(r, cl, method, path, body) ==
    [method |-> method,
     url |-> IF r = "ctx" THEN path ELSE cl.baseURL \o path,
     hasBody |-> body # "nil",
     contentType |-> IF body # "nil" THEN "application/json" ELSE "",
     ctx |-> r = "ctx",
     timeout |-> cl.timeout]

\* How the body of an accepted response is decoded: json.NewDecoder(...).
\* Decode in revisions "plain" and "ctx"; hmac.ParseJSONResponse, which is
\* outside the repository, may decode the stream or the whole body.
Decoders(r) == IF r = "hmac" THEN {"stream", "whole"} ELSE {"stream"}

Decode(decoder, body, fields) ==
    IF decoder = "stream" THEN DecoderDecode(body, fields) ELSE Unmarshal(body, fields)

(***************************************************************************)
(* do                                                                      *)
(***************************************************************************)
\* do with a decode failure reported as an APIError.
doResponseDecodeFailureAsAPIError(f, statusCode, body, decoder) ==
    IF ~statusIn(statusCode, f.successStatuses)
    THEN [err |-> parseErrorResponse(statusCode, body),
          target |-> ZeroResult(f.result)]
    ELSE With(Decode(decoder, body, ResultFields(f.result)), LAMBDA d :
             [err |-> IF d.err THEN parseErrorResponse(statusCode, body) ELSE NilError,
              target |-> d.vals])

\* do that decodes the body into result before it looks at the status.
doResponseDecodeFirst(f, statusCode, body, decoder) ==
    With(Decode(decoder, body, ResultFields(f.result)), LAMBDA d :
        IF ~statusIn(statusCode, f.successStatuses)
        THEN [err |-> parseErrorResponse(statusCode, body), target |-> d.vals]
        ELSE [err |-> IF d.err THEN WrapError(f.wrapErr, CauseError("decode")) ELSE NilError,
              target |-> d.vals])

\* do, from the response on: the status check, the error of a response
\* that is not accepted, the decoding into result.  Gives the error do
\* returns and the value left in the result target.
doResponse(f, statusCode, body, decoder) ==
    IF ~statusIn(statusCode, f.successStatuses)
    THEN [err |-> parseErrorResponse(statusCode, body),
          target |-> ZeroResult(f.result)]
    ELSE IF f.result # "nil"
    THEN With(Decode(decoder, body, ResultFields(f.result)), LAMBDA d :
             [err |-> IF d.err THEN WrapError(f.wrapErr, CauseError("decode")) ELSE NilError,
              target |-> d.vals])
    ELSE [err |-> NilError, target |-> ZeroResult(f.result)]

\* An operation that returns &result whatever do returned.
opReturnResultAlways(out) == [result |-> <<out.target>>, err |-> out.err]

\* The end of every operation: "if err != nil { return nil, err };
\* return &result, nil".
opReturn(out) ==
    [result |-> IF out.err # NilError THEN << >> ELSE <<out.target>>,
     err |-> out.err]

\* do, up to the call of the transport: the request is built and handed to
\* the transport, or building it fails and do returns the wrapped error.
do(c, a, cancelled, path, kind, wrapErr) ==
    LET r == doRequest(rev, client, "GET", path, "nil")
        f == [successStatuses |-> <<StatusOK>>, result |-> kind, wrapErr |-> wrapErr]
    IN  /\ args' = [args EXCEPT ![c] = a]
        /\ ctxDone' = [ctxDone EXCEPT ![c] = cancelled]
        /\ frame' = [frame EXCEPT ![c] = f]
        /\ target' = [target EXCEPT ![c] = ZeroResult(kind)]
        /\ IF rev # "hmac" /\ ~ParseableURL(r.url)
           THEN /\ pc' = [pc EXCEPT ![c] = "returned"]
                /\ ret' = [ret EXCEPT ![c] =
                              opReturn([err |-> WrapError(wrapErr, CauseError("parse url")),
                                        target |-> ZeroResult(kind)])]
                /\ net' = net
           ELSE /\ pc' = [pc EXCEPT ![c] = "inflight"]
                /\ net' = [net EXCEPT ![c] = Append(net[c], r)]
                /\ ret' = ret
        /\ UNCHANGED <<rev, client, active, resp, closed>>

\* "if id == "" { return nil, fmt.Errorf(...) }"
Reject(c, a, cancelled, text) ==
    /\ args' = [args EXCEPT ![c] = a]
    /\ ctxDone' = [ctxDone EXCEPT ![c] = cancelled]
    /\ pc' = [pc EXCEPT ![c] = "returned"]
    /\ ret' = [ret EXCEPT ![c] = [result |-> << >>, err |-> Errorf(text)]]
    /\ UNCHANGED <<rev, client, active, frame, net, resp, target, closed>>

\* A caller may call an operation of a client NewClient returned.
CanCall(c) == c \in active /\ client.state = "ok" /\ pc[c] = "idle"

(***************************************************************************)
(* Operations                                                              *)
(***************************************************************************)
\* The raw-query list operation of revisions "hmac" and "plain", and
\* List*WithQuery of revision "ctx".
RawList(c, op, resource, wrapErr) ==
    \E queryString \in Sampled(QueryStrings, FewQueryStrings), cancelled \in BOOLEAN :
        do(c, [NoArgs EXCEPT !.op = op, !.queryString = queryString], cancelled,
           RawListPath(PathBase(rev, client), resource, queryString), "list", wrapErr)

\* A get operation without the check of the id.
GetUnchecked(c, op, resource, required, wrapErr) ==
    \E id \in Sampled(Ids, FewIds), cancelled \in BOOLEAN :
        do(c, [NoArgs EXCEPT !.op = op, !.id = id], cancelled,
           GetPath(PathBase(rev, client), resource, id), "get", wrapErr)

\* The get operations.
Get(c, op, resource, required, wrapErr) ==
    \E id \in Sampled(Ids, FewIds), cancelled \in BOOLEAN :
        LET a == [NoArgs EXCEPT !.op = op, !.id = id]
        IN  IF id = << >>
            THEN Reject(c, a, cancelled, required)
            ELSE do(c, a, cancelled, GetPath(PathBase(rev, client), resource, id),
                    "get", wrapErr)

ListMails(c) ==
    /\ CanCall(c)
    /\ \/ /\ rev # "ctx"
          /\ RawList(c, "ListMails", <<"/", "m", "a", "i", "l", "s">>, "failed to list mails")
       \/ /\ rev = "ctx"
          /\ \E req \in ListMailsRequests, cancelled \in BOOLEAN :
                do(c, [NoArgs EXCEPT !.op = "ListMails", !.req = req], cancelled,
                   FilterListPath(client.baseURL, <<"/", "m", "a", "i", "l", "s">>, MailsQueryParams(req)),
                   "list", "failed to list mails")

ListMailsWithQuery(c) ==
    /\ CanCall(c)
    /\ rev = "ctx"
    /\ RawList(c, "ListMailsWithQuery", <<"/", "m", "a", "i", "l", "s">>, "failed to list mails")

GetMail(c) ==
    /\ CanCall(c)
    /\ Get(c, "GetMail", <<"/", "m", "a", "i", "l", "s">>, "mail id is required", "failed to get mail")

ListTemplates(c) ==
    /\ CanCall(c)
    /\ \/ /\ rev # "ctx"
          /\ RawList(c, "ListTemplates", <<"/", "t", "e", "m", "p", "l", "a", "t", "e", "s">>, "failed to list templates")
       \/ /\ rev = "ctx"
          /\ \E req \in ListTemplatesRequests, cancelled \in BOOLEAN :
                do(c, [NoArgs EXCEPT !.op = "ListTemplates", !.req = req], cancelled,
                   FilterListPath(client.baseURL, <<"/", "t", "e", "m", "p", "l", "a", "t", "e", "s">>, TemplatesQueryParams(req)),
                   "list", "failed to list templates")

ListTemplatesWithQuery(c) ==
    /\ CanCall(c)
    /\ rev = "ctx"
    /\ RawList(c, "ListTemplatesWithQuery", <<"/", "t", "e", "m", "p", "l", "a", "t", "e", "s">>, "failed to list templates")

GetTemplate(c) ==
    /\ CanCall(c)
    /\ Get(c, "GetTemplate", <<"/", "t", "e", "m", "p", "l", "a", "t", "e", "s">>, "template id is required",
           "failed to get template")

ListAttachments(c) ==
    /\ CanCall(c)
    /\ \/ /\ rev # "ctx"
          /\ RawList(c, "ListAttachments", <<"/", "a", "t", "t", "a", "c", "h", "m", "e", "n", "t", "s">>, "failed to list attachments")
       \/ /\ rev = "ctx"
          /\ \E req \in ListAttachmentsRequests, cancelled \in BOOLEAN :
                do(c, [NoArgs EXCEPT !.op = "ListAttachments", !.req = req], cancelled,
                   FilterListPath(client.baseURL, <<"/", "a", "t", "t", "a", "c", "h", "m", "e", "n", "t", "s">>,
                                  AttachmentsQueryParams(req)),
                   "list", "failed to list attachments")

ListAttachmentsWithQuery(c) ==
    /\ CanCall(c)
    /\ rev = "ctx"
    /\ RawList(c, "ListAttachmentsWithQuery", <<"/", "a", "t", "t", "a", "c", "h", "m", "e", "n", "t", "s">>,
               "failed to list attachments")

GetAttachment(c) ==
    /\ CanCall(c)
    /\ Get(c, "GetAttachment", <<"/", "a", "t", "t", "a", "c", "h", "m", "e", "n", "t", "s">>, "attachment id is required",
           "failed to get attachment")

\* The path a call with the arguments a builds on the client cl.
OpPath(r, cl, a) ==
    CASE a.op = "GetMail" -> GetPath(PathBase(r, cl), <<"/", "m", "a", "i", "l", "s">>, a.id)
      [] a.op = "GetTemplate" -> GetPath(PathBase(r, cl), <<"/", "t", "e", "m", "p", "l", "a", "t", "e", "s">>, a.id)
      [] a.op = "GetAttachment" -> GetPath(PathBase(r, cl), <<"/", "a", "t", "t", "a", "c", "h", "m", "e", "n", "t", "s">>, a.id)
      [] a.op = "ListMailsWithQuery" \/ (a.op = "ListMails" /\ r # "ctx") ->
            RawListPath(PathBase(r, cl), <<"/", "m", "a", "i", "l", "s">>, a.queryString)
      [] a.op = "ListTemplatesWithQuery" \/ (a.op = "ListTemplates" /\ r # "ctx") ->
            RawListPath(PathBase(r, cl), <<"/", "t", "e", "m", "p", "l", "a", "t", "e", "s">>, a.queryString)
      [] a.op = "ListAttachmentsWithQuery" \/ (a.op = "ListAttachments" /\ r # "ctx") ->
            RawListPath(PathBase(r, cl), <<"/", "a", "t", "t", "a", "c", "h", "m", "e", "n", "t", "s">>, a.queryString)
      [] a.op = "ListMails" ->
            FilterListPath(cl.baseURL, <<"/", "m", "a", "i", "l", "s">>, MailsQueryParams(a.req))
      [] a.op = "ListTemplates" ->
            FilterListPath(cl.baseURL, <<"/", "t", "e", "m", "p", "l", "a", "t", "e", "s">>, TemplatesQueryParams(a.req))
      [] OTHER ->
            FilterListPath(cl.baseURL, <<"/", "a", "t", "t", "a", "c", "h", "m", "e", "n", "t", "s">>, AttachmentsQueryParams(a.req))

\* The URL of the request a call with the arguments a sends on the client
\* NewClient(config) returns.
RequestURL(r, config, a) ==
    doRequest(r, NewClientResult(r, config), "GET",
              OpPath(r, NewClientResult(r, config), a), "nil").url

(***************************************************************************)
(* The transport's answers, the caller's context, the caller's return      *)
(***************************************************************************)
\* The request of the running call that is in the transport.
InFlight(c) == net[c][Len(net[c])]

\* do with the result decoded into a variable all callers share.
TransportRespondSharedResult(c) ==
    /\ pc[c] = "inflight"
    /\ Routable(InFlight(c).url)
    /\ ~(InFlight(c).ctx /\ ctxDone[c])
    /\ \E statusCode \in Sampled(Statuses, FewStatuses),
          body \in Sampled(Bodies, FewBodies), decoder \in Decoders(rev) :
          \E out \in {doResponse(frame[c], statusCode, body, decoder)} :
              /\ resp' = [resp EXCEPT ![c] = <<[StatusCode |-> statusCode, Body |-> body]>>]
              /\ target' = [d \in Callers |-> out.target]
              /\ ret' = [ret EXCEPT ![c] = opReturn(out)]
    /\ closed' = [closed EXCEPT ![c] = closed[c] + 1]
    /\ pc' = [pc EXCEPT ![c] = "returned"]
    /\ UNCHANGED <<rev, client, active, args, frame, net, ctxDone>>

\* do that closes the body at its end instead of deferring the close.
TransportRespondCloseAtEnd(c) ==
    /\ pc[c] = "inflight"
    /\ Routable(InFlight(c).url)
    /\ ~(InFlight(c).ctx /\ ctxDone[c])
    /\ \E statusCode \in Sampled(Statuses, FewStatuses),
          body \in Sampled(Bodies, FewBodies), decoder \in Decoders(rev) :
          \E out \in {doResponse(frame[c], statusCode, body, decoder)} :
              /\ resp' = [resp EXCEPT ![c] = <<[StatusCode |-> statusCode, Body |-> body]>>]
              /\ target' = [target EXCEPT ![c] = out.target]
              /\ ret' = [ret EXCEPT ![c] = opReturn(out)]
              /\ closed' = [closed EXCEPT ![c] =
                               IF out.err = NilError THEN closed[c] + 1 ELSE closed[c]]
    /\ pc' = [pc EXCEPT ![c] = "returned"]
    /\ UNCHANGED <<rev, client, active, args, frame, net, ctxDone>>

\* The transport returns a response: do checks the status, decodes, closes
\* the body (defer) and the operation returns.  A request bound to a
\* cancelled context gets no response.
TransportRespond(c) ==
    /\ pc[c] = "inflight"
    /\ Routable(InFlight(c).url)
    /\ ~(InFlight(c).ctx /\ ctxDone[c])
    /\ \E statusCode \in Sampled(Statuses, FewStatuses),
          body \in Sampled(Bodies, FewBodies), decoder \in Decoders(rev) :
          \E out \in {doResponse(frame[c], statusCode, body, decoder)} :
              /\ resp' = [resp EXCEPT ![c] = <<[StatusCode |-> statusCode, Body |-> body]>>]
              /\ target' = [target EXCEPT ![c] = out.target]
              /\ ret' = [ret EXCEPT ![c] = opReturn(out)]
    /\ closed' = [closed EXCEPT ![c] = closed[c] + 1]
    /\ pc' = [pc EXCEPT ![c] = "returned"]
    /\ UNCHANGED <<rev, client, active, args, frame, net, ctxDone>>

\* A transport failure after which the request is sent once more.
TransportFailRetried(c) ==
    /\ pc[c] = "inflight"
    /\ Len(net[c]) < 2
    /\ net' = [net EXCEPT ![c] = Append(net[c], InFlight(c))]
    /\ UNCHANGED <<rev, client, active, pc, args, frame, resp, target, ret, ctxDone, closed>>

\* The transport returns an error (no connection, the client's timeout, or
\* the cancelled context of the request): do wraps it, nothing is closed.
TransportFail(c) ==
    /\ pc[c] = "inflight"
    /\ ret' = [ret EXCEPT ![c] =
                  opReturn([err |-> WrapError(frame[c].wrapErr,
                                       CauseError(IF InFlight(c).ctx /\ ctxDone[c]
                                                  THEN "context canceled"
                                                  ELSE "transport")),
                            target |-> target[c]])]
    /\ pc' = [pc EXCEPT ![c] = "returned"]
    /\ UNCHANGED <<rev, client, active, args, frame, net, resp, target, ctxDone, closed>>

\* The caller cancels the context of its running call.
Cancel(c) ==
    /\ pc[c] = "inflight"
    /\ ~ctxDone[c]
    /\ ctxDone' = [ctxDone EXCEPT ![c] = TRUE]
    /\ UNCHANGED <<rev, client, active, pc, args, frame, net, resp, target, ret, closed>>

\* The caller takes the returned values; it may call again.
Return(c) ==
    /\ pc[c] = "returned"
    /\ pc' = [pc EXCEPT ![c] = "idle"]
    /\ args' = [args EXCEPT ![c] = NoArgs]
    /\ frame' = [frame EXCEPT ![c] = NoFrame]
    /\ net' = [net EXCEPT ![c] = << >>]
    /\ resp' = [resp EXCEPT ![c] = << >>]
    /\ target' = [target EXCEPT ![c] = << >>]
    /\ ret' = [ret EXCEPT ![c] = NoReturn]
    /\ ctxDone' = [ctxDone EXCEPT ![c] = FALSE]
    /\ closed' = [closed EXCEPT ![c] = 0]
    /\ UNCHANGED <<rev, client, active>>

Next ==
    \/ NewClient
    \/ \E c \in Callers : ListMails(c)
    \/ \E c \in Callers : ListMailsWithQuery(c)
    \/ \E c \in Callers : GetMail(c)
    \/ \E c \in Callers : ListTemplates(c)
    \/ \E c \in Callers : ListTemplatesWithQuery(c)
    \/ \E c \in Callers : GetTemplate(c)
    \/ \E c \in Callers : ListAttachments(c)
    \/ \E c \in Callers : ListAttachmentsWithQuery(c)
    \/ \E c \in Callers : GetAttachment(c)
    \/ \E c \in Callers : TransportRespond(c)
    \/ \E c \in Callers : TransportFail(c)
    \/ \E c \in Callers : Cancel(c)
    \/ \E c \in Callers : Return(c)

Spec == Init /\ [][Next]_vars

\* Several callers on one client.
SpecConcurrent == InitConcurrent /\ [][Next]_vars

\* do by itself: it has been called with any set of accepted statuses and
\* with or without a result target, and its request is in the transport.
SuccessStatusSets == {<<StatusOK>>, <<StatusOK, 201>>}

InitDo ==
    /\ rev \in Revisions
    /\ client = NewClientResult(rev, [BaseURL |-> <<"h", "t", "t", "p", ":", "/", "/", "h">>,
                                      HMACSecret |-> IF rev = "hmac" THEN <<"k">> ELSE << >>,
                                      Timeout |-> 0])
    /\ active = {"c1"}
    /\ \E successStatuses \in SuccessStatusSets, result \in {"nil", "list", "get"} :
          /\ frame = [c \in Callers |->
                         IF c = "c1"
                         THEN [successStatuses |-> successStatuses, result |-> result,
                               wrapErr |-> "failed"]
                         ELSE NoFrame]
          /\ target = [c \in Callers |-> IF c = "c1" THEN ZeroResult(result) ELSE << >>]
    /\ pc = [c \in Callers |-> IF c = "c1" THEN "inflight" ELSE "idle"]
    /\ args = [c \in Callers |-> NoArgs]
    /\ net = [c \in Callers |->
                 IF c = "c1"
                 THEN <<doRequest(rev, client, "GET",
                                  PathBase(rev, client) \o apiPathPrefix, "nil")>>
                 ELSE << >>]
    /\ resp = [c \in Callers |-> << >>]
    /\ ret = [c \in Callers |-> NoReturn]
    /\ ctxDone = [c \in Callers |-> FALSE]
    /\ closed = [c \in Callers |-> 0]

NextDo ==
    \/ \E c \in Callers : TransportRespond(c)
    \/ \E c \in Callers : TransportFail(c)
    \/ \E c \in Callers : Return(c)

SpecDo == InitDo /\ [][NextDo]_vars

(***************************************************************************)
(* Properties                                                              *)
(***************************************************************************)
GetOps == {"GetMail", "GetTemplate", "GetAttachment"}

\* The calls that have returned to their caller.
Returned(c) == pc[c] = "returned"

\* The response the transport returned to the call of c (when there is one).
Response(c) == resp[c][1]

\* The static validation messages of the get operations.
RequiredText(op) ==
    CASE op = "GetMail" -> "mail id is required"
      [] op = "GetTemplate" -> "template id is required"
      [] OTHER -> "attachment id is required"

\* C1: GetMail, GetTemplate and GetAttachment called with an empty id
\* return the validation error and a nil result without handing any request
\* to the transport, in every revision: such a call is never in the
\* transport, and when it has returned it has issued no request and got no
\* response.
C1_EmptyIdIsRejectedLocally ==
    \A c \in Callers :
        (args[c].op \in GetOps /\ args[c].id = << >>) =>
            /\ pc[c] = "returned"
            /\ net[c] = << >>
            /\ resp[c] = << >>
            /\ ret[c].result = << >>
            /\ ret[c].err = Errorf(RequiredText(args[c].op))
            /\ ~IsAPIError(ret[c].err)

C1_Witness ==
    \E c \in Callers :
        /\ Returned(c)
        /\ args[c].op = "GetAttachment"
        /\ args[c].id = << >>
        /\ ret[c].err # NilError

\* C2: when the response status is not in the accepted set, the returned
\* error is an APIError whose StatusCode is the status received and whose
\* Body is the body received, byte for byte, whatever message was derived.
C2_APIErrorKeepsStatusAndBody ==
    \A c \in Callers :
        (Returned(c) /\ resp[c] # << >>
            /\ ~statusIn(Response(c).StatusCode, frame[c].successStatuses)) =>
            /\ IsAPIError(ret[c].err)
            /\ AsAPIError(ret[c].err).StatusCode = Response(c).StatusCode
            /\ AsAPIError(ret[c].err).Body = Response(c).Body

\* A rejected response whose derived message is not the body.
C2_Witness ==
    \E c \in Callers :
        /\ Returned(c)
        /\ resp[c] # << >>
        /\ Response(c).StatusCode = 404
        /\ IsAPIError(ret[c].err)
        /\ AsAPIError(ret[c].err).Message # Response(c).Body
        /\ AsAPIError(ret[c].err).Body = Response(c).Body

\* The message the preference order of C3 derives from a body: the error
\* field of the decoded envelope, else its message field, else the body.
PreferredMessage(body) ==
    LET envelope == Unmarshal(body, errorRespFields)
        message  == StringField(envelope, 1)
        error    == StringField(envelope, 4)
    IN  IF ~envelope.err /\ error # << >> THEN error
        ELSE IF ~envelope.err /\ message # << >> THEN message
        ELSE body

\* C3: the message of an APIError is the body's error field when it is
\* not empty, else its message field when it is not empty, else the raw
\* body; a body that is no error envelope, or one with both fields missing or
\* empty, gives the raw body.  The three bodies the specification names give
\* X, Y and oops.
C3_MessagePreferenceOrder ==
    \A c \in Callers :
        (Returned(c) /\ IsAPIError(ret[c].err)) =>
            LET body == Response(c).Body
                msg  == AsAPIError(ret[c].err).Message
            IN  /\ msg = PreferredMessage(body)
                /\ body = <<"{", "\"", "e", "r", "r", "o", "r", "\"", ":", "\"", "X", "\"", ",", "\"", "m", "e", "s", "s", "a", "g", "e", "\"", ":", "\"", "Y", "\"", "}">> => msg = <<"X">>
                /\ body = <<"{", "\"", "m", "e", "s", "s", "a", "g", "e", "\"", ":", "\"", "Y", "\"", "}">> => msg = <<"Y">>
                /\ body = <<"{", "\"", "e", "r", "r", "o", "r", "\"", ":", "\"", "\"", ",", "\"", "m", "e", "s", "s", "a", "g", "e", "\"", ":", "\"", "Y", "\"", "}">> => msg = <<"Y">>
                /\ body \in {<<"o", "o", "p", "s">>, <<"{", "}">>, << >>, <<"{", "\"", "e", "r", "r", "o", "r", "\"", ":", "\"", "X", "\"">>} => msg = body

\* Both fields set: the error field wins.
C3_Witness ==
    \E c \in Callers :
        /\ Returned(c)
        /\ IsAPIError(ret[c].err)
        /\ Response(c).Body = <<"{", "\"", "e", "r", "r", "o", "r", "\"", ":", "\"", "X", "\"", ",", "\"", "m", "e", "s", "s", "a", "g", "e", "\"", ":", "\"", "Y", "\"", "}">>
        /\ AsAPIError(ret[c].err).Message = <<"X">>

\* C4: every list and get operation accepts exactly the status 200: a
\* result is returned only for a response with status 200, and for every
\* other status, 201 and 204 included, the operation returns no result and
\* an APIError that carries the whole body.
C4_OnlyStatus200IsSuccess ==
    \A c \in Callers :
        (Returned(c) /\ resp[c] # << >>) =>
            /\ ret[c].result # << >> => Response(c).StatusCode = 200
            /\ Response(c).StatusCode # 200 =>
                  /\ ret[c].result = << >>
                  /\ IsAPIError(ret[c].err)
                  /\ AsAPIError(ret[c].err).Body = Response(c).Body
            /\ Response(c).StatusCode = 200 => ~IsAPIError(ret[c].err)

\* A 201 with a well-formed success envelope is still an error.
C4_Witness ==
    \E c \in Callers :
        /\ Returned(c)
        /\ resp[c] # << >>
        /\ Response(c).StatusCode = 201
        /\ Response(c).Body = <<"{", "\"", "s", "u", "c", "c", "e", "s", "s", "\"", ":", "t", "r", "u", "e", ",", "\"", "s", "t", "a", "t", "u", "s", "\"", ":", "2", "0", "0", ",", "\"", "d", "a", "t", "a", "\"", ":", "[", "]", "}">>
        /\ ret[c].result = << >>
        /\ IsAPIError(ret[c].err)

\* The prefix each operation puts before the cause of a failure.
FailurePrefix(op) ==
    CASE op \in {"ListMails", "ListMailsWithQuery"} -> "failed to list mails"
      [] op = "GetMail" -> "failed to get mail"
      [] op \in {"ListTemplates", "ListTemplatesWithQuery"} -> "failed to list templates"
      [] op = "GetTemplate" -> "failed to get template"
      [] op \in {"ListAttachments", "ListAttachmentsWithQuery"} ->
            "failed to list attachments"
      [] OTHER -> "failed to get attachment"

\* C5: a returned error is of the API-error kind exactly when the
\* transport returned a response whose status is not accepted.  Every other
\* error of a call that reached do (the transport failed, the request could
\* not be built, or the body of an accepted response could not be decoded) is
\* the operation's prefix with the cause chained behind it, and is no API
\* error; nor are nil and the validation error.
C5_APIErrorKindIffRejectedStatus ==
    /\ ~IsAPIError(NilError)
    /\ \A c \in Callers :
          Returned(c) =>
              /\ IsAPIError(ret[c].err) <=>
                    (resp[c] # << >> /\ Response(c).StatusCode # 200)
              /\ (ret[c].err # NilError /\ ~IsAPIError(ret[c].err)
                      /\ ~(args[c].op \in GetOps /\ args[c].id = << >>)) =>
                    /\ Len(ret[c].err) = 2
                    /\ ret[c].err[1].kind = "fmt"
                    /\ ret[c].err[1].text = FailurePrefix(args[c].op)
                    /\ ret[c].err[2].kind = "cause"
              /\ (resp[c] # << >> /\ Response(c).StatusCode = 200) =>
                    \/ ret[c].err = NilError
                    \/ ret[c].err[2] = CauseError("decode")[1]

\* An accepted response whose body cannot be decoded.
C5_Witness ==
    \E c \in Callers :
        /\ Returned(c)
        /\ resp[c] # << >>
        /\ Response(c).StatusCode = 200
        /\ Response(c).Body = <<"o", "o", "p", "s">>
        /\ ret[c].err # NilError
        /\ ~IsAPIError(ret[c].err)

\* C6: every operation honors the caller's context: a call whose context
\* is cancelled before the transport has answered (also one cancelled before
\* the call) is aborted, that is, it consumes no response and returns an
\* error.
C6_CancelledContextAbortsTheCall ==
    \A c \in Callers :
        (Returned(c) /\ ctxDone[c] /\ net[c] # << >>) =>
            /\ resp[c] = << >>
            /\ ret[c].err # NilError

\* C7: nothing is retried.  A call hands at most one request to the
\* transport; while the request is in the transport no other is issued, and
\* whatever the transport answers (an error, a rejected status, a body that
\* cannot be decoded, a success) the call returns with the requests it had
\* issued and issues none afterwards.
C7_NothingIsRetried ==
    [][\A c \in Callers :
          /\ Len(net'[c]) <= 1
          /\ pc[c] = "inflight" =>
                /\ net'[c] = net[c]
                /\ pc'[c] \in {"inflight", "returned"}
          /\ pc[c] = "returned" =>
                /\ pc'[c] \in {"returned", "idle"}
                /\ pc'[c] = "returned" => net'[c] = net[c]]_vars

\* A call that failed in the transport and returned after its only request.
C7_Witness ==
    \E c \in Callers :
        /\ Returned(c)
        /\ Len(net[c]) = 1
        /\ resp[c] = << >>
        /\ ret[c].err # NilError

(***************************************************************************)
(* Reading a request URL back                                              *)
(***************************************************************************)
\* The index of the first ch in s, 0 when s holds none.
IndexOf(s, ch) ==
    LET at == {i \in 1..Len(s) : s[i] = ch}
    IN  IF at = {} THEN 0 ELSE CHOOSE i \in at : \A j \in at : i <= j

\* s cut at every ch.
RECURSIVE SplitOn(_, _)
SplitOn(s, ch) ==
    LET i == IndexOf(s, ch)
    IN  IF i = 0 THEN <<s>>
        ELSE <<SubSeq(s, 1, i - 1)>> \o SplitOn(SubSeq(s, i + 1, Len(s)), ch)

\* The character a %XX triple stands for ("" for a triple that is none).
Unhex(triple) ==
    IF \E ch \in Escapable : PercentHex(ch) = triple
    THEN CHOOSE ch \in Escapable : PercentHex(ch) = triple
    ELSE ""

\* What a server reads from an escaped text: %XX is the character it stands
\* for and, in a query value (plusIsSpace), "+" is a space.
RECURSIVE Unescape(_, _)
Unescape(s, plusIsSpace) ==
    IF Len(s) = 0 THEN << >>
    ELSE IF Head(s) = "%" /\ Len(s) >= 3
    THEN <<Unhex(SubSeq(s, 1, 3))>> \o Unescape(SubSeq(s, 4, Len(s)), plusIsSpace)
    ELSE IF Head(s) = "+" /\ plusIsSpace
    THEN <<" ">> \o Unescape(Tail(s), plusIsSpace)
    ELSE <<Head(s)>> \o Unescape(Tail(s), plusIsSpace)

DigitValue(ch) == CHOOSE d \in 0..9 : DigitChar(d) = ch

\* The number a decimal text without sign stands for.
RECURSIVE Atoi(_)
Atoi(s) ==
    IF Len(s) = 0 THEN 0
    ELSE 10 * Atoi(SubSeq(s, 1, Len(s) - 1)) + DigitValue(s[Len(s)])

\* The URL of the request of c, after the base URL of the client.
RequestPath(c) ==
    SubSeq(InFlight(c).url, Len(client.baseURL) + 1, Len(InFlight(c).url))

\* The resource an operation reads.
ResourceOf(op) ==
    CASE op \in {"ListMails", "ListMailsWithQuery", "GetMail"} -> <<"/", "m", "a", "i", "l", "s">>
      [] op \in {"ListTemplates", "ListTemplatesWithQuery", "GetTemplate"} -> <<"/", "t", "e", "m", "p", "l", "a", "t", "e", "s">>
      [] OTHER -> <<"/", "a", "t", "t", "a", "c", "h", "m", "e", "n", "t", "s">>

\* /api/v1/<resource> of an operation.
ResourcePath(op) == <<"/", "a", "p", "i", "/", "v", "1">> \o ResourceOf(op)

\* The calls of a structured list operation that issued a request.
FilterCall(c) ==
    /\ rev = "ctx"
    /\ args[c].op \in {"ListMails", "ListTemplates", "ListAttachments"}
    /\ net[c] # << >>

\* The filter fields of a structured list operation, in the fixed order.
FilterFields(op, req) ==
    <<[name |-> <<"p", "a", "g", "e">>, int |-> TRUE, n |-> req.Page, s |-> << >>],
      [name |-> <<"p", "e", "r", "_", "p", "a", "g", "e">>, int |-> TRUE, n |-> req.PerPage, s |-> << >>]>>
    \o (CASE op = "ListMails" ->
               <<[name |-> <<"s", "e", "r", "v", "i", "c", "e">>, int |-> FALSE, n |-> 0, s |-> req.Service],
                 [name |-> <<"t", "y", "p", "e">>, int |-> FALSE, n |-> 0, s |-> req.Type],
                 [name |-> <<"s", "t", "a", "t", "u", "s">>, int |-> FALSE, n |-> 0, s |-> req.Status]>>
          [] op = "ListAttachments" ->
               <<[name |-> <<"m", "a", "i", "l", "_", "i", "d">>, int |-> FALSE, n |-> 0, s |-> req.MailID]>>
          [] OTHER -> << >>)

\* Whether name=value is the field f: a number in decimal, a string escaped
\* so that no reserved character is left and the server reads it back.
IsParamOf(param, f) ==
    LET eq    == IndexOf(param, "=")
        value == SubSeq(param, eq + 1, Len(param))
    IN  /\ eq # 0
        /\ SubSeq(param, 1, eq - 1) = f.name
        /\ IF f.int
           THEN /\ value # << >>
                /\ \A i \in 1..Len(value) : value[i] \in Digits
                /\ Atoi(value) = f.n
           ELSE /\ \A i \in 1..Len(value) : value[i] \in Unreserved \cup {"%", "+"}
                /\ Unescape(value, TRUE) = f.s

\* The URL of a structured list call is /api/v1/<resource> when no field of
\* `sent` is given, and else "?" and the fields of `sent` joined with "&".
FilterURLHolds(c, sent) ==
    LET path  == RequestPath(c)
        mark  == IndexOf(path, "?")
        parts == SplitOn(SubSeq(path, mark + 1, Len(path)), "&")
    IN  IF sent = << >>
        THEN path = ResourcePath(args[c].op)
        ELSE /\ mark # 0
             /\ SubSeq(path, 1, mark - 1) = ResourcePath(args[c].op)
             /\ Len(parts) = Len(sent)
             /\ \A i \in 1..Len(sent) : IsParamOf(parts[i], sent[i])

\* A field is left at its zero value.
IsZeroField(f) == IF f.int THEN f.n = 0 ELSE f.s = << >>

IsSetField(f) == ~IsZeroField(f)

\* A field the code sends: a positive number, a string that is not empty.
IsSentField(f) == IF f.int THEN f.n > 0 ELSE f.s # << >>

\* C8 as stated: the structured list operations send exactly the fields
\* that are not at their zero value, in the fixed order.
C8_Original_EveryNonZeroFieldIsSent ==
    \A c \in Callers :
        FilterCall(c) =>
            FilterURLHolds(c, SelectSeq(FilterFields(args[c].op, args[c].req), IsSetField))

\* C8, amended: the structured list operations build /api/v1/<resource>
\* and, when a field is sent, "?" and the sent fields joined with "&" in
\* the order page, per_page, service, type, status (page, per_page, mail_id
\* for attachments).  A number is sent only when it is positive (zero and
\* negative values are omitted), a string when it is not empty, escaped as a
\* query value.  ListMails with Page=2, PerPage=50 gives
\* /api/v1/mails?page=2&per_page=50.
C8_PositiveAndNonEmptyFieldsAreSent ==
    \A c \in Callers :
        FilterCall(c) =>
            /\ FilterURLHolds(c, SelectSeq(FilterFields(args[c].op, args[c].req),
                                           IsSentField))
            /\ (args[c].op = "ListMails"
                  /\ args[c].req = [NoFilter EXCEPT !.Page = 2, !.PerPage = 50]) =>
                  RequestPath(c) = <<"/", "a", "p", "i", "/", "v", "1", "/", "m", "a", "i", "l", "s", "?", "p", "a", "g", "e", "=", "2", "&", "p", "e", "r", "_", "p", "a", "g", "e", "=", "5", "0">>

\* A structured call with every field of ListMails set, one of them holding
\* reserved characters.
C8_Witness ==
    \E c \in Callers :
        /\ FilterCall(c)
        /\ args[c].op = "ListMails"
        /\ args[c].req.Page = 2
        /\ args[c].req.PerPage = 50
        /\ args[c].req.Service = <<"a", "&", "b", " ", "c">>
        /\ args[c].req.Type # << >>
        /\ args[c].req.Status # << >>

\* The calls of a raw-query list operation that issued a request.
RawQueryCall(c) ==
    /\ net[c] # << >>
    /\ \/ rev # "ctx" /\ args[c].op \in {"ListMails", "ListTemplates", "ListAttachments"}
       \/ args[c].op \in {"ListMailsWithQuery", "ListTemplatesWithQuery",
                          "ListAttachmentsWithQuery"}

\* C9: the raw-query list operations forward the query string as it is:
\* the URL is /api/v1/<resource>, and for a query string that is not empty
\* "?" and the query string, unchanged; an empty one adds no "?".
C9_RawQueryIsForwardedVerbatim ==
    \A c \in Callers :
        RawQueryCall(c) =>
            LET path == RequestPath(c)
                mark == IndexOf(path, "?")
                q    == args[c].queryString
            IN  IF q = << >>
                THEN mark = 0 /\ path = ResourcePath(args[c].op)
                ELSE /\ mark = Len(ResourcePath(args[c].op)) + 1
                     /\ SubSeq(path, 1, mark - 1) = ResourcePath(args[c].op)
                     /\ SubSeq(path, mark + 1, Len(path)) = q

\* A query string that is not well-formed goes out unchanged.
C9_Witness ==
    \E c \in Callers :
        /\ RawQueryCall(c)
        /\ args[c].queryString = <<"q", "=", "a", "%", "2", "0", "b", "&", "&", "x", "=", " ", "y">>
        /\ RequestPath(c) = ResourcePath(args[c].op) \o <<"?", "q", "=", "a", "%", "2", "0", "b", "&", "&", "x", "=", " ", "y">>

\* The calls of a get operation that issued a request.
GetCall(c) == args[c].op \in GetOps /\ net[c] # << >>

\* C10: the id of a get operation is escaped as one path segment: the
\* URL is /api/v1/<resource>/<segment>, the segment holds no "/", "?", "#"
\* or space (so it adds no path component, query or fragment) and the server
\* reads the id back from it.
C10_IdIsOnePathSegment ==
    \A c \in Callers :
        GetCall(c) =>
            LET path    == RequestPath(c)
                prefix  == ResourcePath(args[c].op) \o <<"/">>
                segment == SubSeq(path, Len(prefix) + 1, Len(path))
            IN  /\ HasPrefix(path, prefix)
                /\ segment # << >>
                /\ \A i \in 1..Len(segment) : segment[i] \notin {"/", "?", "#", " "}
                /\ Unescape(segment, FALSE) = args[c].id

\* An id with a slash, and one with a space, "?" and "#", went out.
C10_Witness ==
    \E c \in Callers :
        /\ GetCall(c)
        /\ args[c].id \in {<<"a", "/", "b">>, <<"x", " ", "y", "?", "#">>}
        /\ IndexOf(args[c].id, "/") # 0

C12_BaseURLIsTheOnlyRequiredSetting ==
    (client.state # "none" /\ client.config.BaseURL # << >>
        /\ client.config.HMACSecret = << >>) =>
        /\ client.state = "ok"
        /\ client.err = NilError
        /\ client.transport

\* s without the slashes at its end.
RECURSIVE Stem(_)
Stem(s) ==
    IF s # << >> /\ s[Len(s)] = "/" THEN Stem(SubSeq(s, 1, Len(s) - 1)) ELSE s

\* C13: the trailing slashes of the base URL are stripped at
\* construction.  A call sends the URL its operation builds from the Config
\* and the arguments; every Config whose base URL differs from the client's
\* only in trailing slashes gives, for the same arguments, the same URL; and
\* the URL is the base URL without its trailing slashes followed at once by
\* /api/v1, so no "//" stands between them.
C13_TrailingSlashesAreStripped ==
    \A c \in Callers :
        net[c] # << >> =>
            LET url  == InFlight(c).url
                stem == Stem(client.config.BaseURL)
            IN  /\ url = RequestURL(rev, client.config, args[c])
                /\ \A config \in Configs(rev) :
                      (config.BaseURL # << >> /\ Stem(config.BaseURL) = stem
                          /\ config.HMACSecret = client.config.HMACSecret) =>
                          RequestURL(rev, config, args[c]) = url
                /\ HasPrefix(url, stem \o <<"/", "a", "p", "i", "/", "v", "1", "/">>)
                /\ stem # << >> => stem[Len(stem)] # "/"

\* A client built with two trailing slashes has sent a request, and the
\* Configs with one slash and with none are there to compare with.
C13_Witness ==
    \E c \in Callers :
        /\ net[c] # << >>
        /\ client.config.BaseURL = <<"h", "t", "t", "p", ":", "/", "/", "h", "/", "/">>
        /\ InFlight(c).url = <<"h", "t", "t", "p", ":", "/", "/", "h", "/", "a", "p", "i", "/", "v", "1", "/", "m", "a", "i", "l", "s", "/", "a", "%", "2", "F", "b">>
        /\ \E c1, c2 \in Configs(rev) :
              /\ c1.BaseURL = <<"h", "t", "t", "p", ":", "/", "/", "h", "/">>
              /\ c2.BaseURL = <<"h", "t", "t", "p", ":", "/", "/", "h">>

\* The timeout, in seconds, a client built from the Config has to apply.
ConfiguredTimeout(config) == IF config.Timeout = 0 THEN 10 ELSE config.Timeout

\* C14: the timeout of a constructed client is 10 seconds when
\* Config.Timeout is zero (unset) and Config.Timeout otherwise, and every
\* request the client sends is sent with this timeout.
C14_TimeoutDefaultsToTenSeconds ==
    /\ client.state = "ok" => client.timeout = ConfiguredTimeout(client.config)
    /\ \A c \in Callers : \A i \in 1..Len(net[c]) :
          net[c][i].timeout = ConfiguredTimeout(client.config)

\* A client built without a Timeout has sent a request with 10 seconds.
C14_Witness ==
    \E c \in Callers :
        /\ net[c] # << >>
        /\ client.config.Timeout = 0
        /\ InFlight(c).timeout = 10

\* Everything a call of c holds: its arguments, its request, its response,
\* its result.
Slot(c) ==
    <<pc[c], args[c], frame[c], net[c], resp[c], target[c], ret[c], ctxDone[c], closed[c]>>

\* What do is called with by the operation of c, from the arguments of c.
OwnFrame(c) ==
    [successStatuses |-> <<200>>,
     result |-> IF args[c].op \in GetOps THEN "get" ELSE "list",
     wrapErr |-> FailurePrefix(args[c].op)]

\* C15: the client is safe for concurrent use.  Under every interleaving
\* of the calls of several callers: no step writes the client once it is
\* constructed; a step of one caller leaves everything the other callers'
\* calls hold as it is; the request of a call is the one of its own
\* arguments; and what a call returns is what its own arguments and its own
\* response give.
C15_CallersShareOnlyTheConfiguration ==
    /\ [](\A c \in Callers :
            /\ net[c] # << >> => InFlight(c).url = RequestURL(rev, client.config, args[c])
            /\ (Returned(c) /\ resp[c] # << >>) =>
                  \E decoder \in Decoders(rev) :
                      ret[c] = opReturn(doResponse(OwnFrame(c), Response(c).StatusCode,
                                                   Response(c).Body, decoder))
            /\ (Returned(c) /\ resp[c] = << >>) =>
                  ret[c].result = << >> /\ ret[c].err # NilError)
    /\ [][/\ client.state # "none" => client' = client
          /\ \A c, d \in Callers :
                (c # d /\ Slot(c)' # Slot(c)) => Slot(d)' = Slot(d)]_vars

\* Two calls overlapped: one has returned its result while the other, a
\* different operation, is still in the transport.
C15_Witness ==
    \E c, d \in Callers :
        /\ c # d
        /\ Returned(c) /\ ret[c].err = NilError /\ ret[c].result # << >>
        /\ pc[d] = "inflight"
        /\ args[d].op # args[c].op

\* C16: every request of a list or get operation is a GET without a
\* body, and the Content-Type header, set only on requests with a body, is on
\* none of them.
C16_RequestsAreBodylessGETs ==
    \A c \in Callers : \A i \in 1..Len(net[c]) :
        /\ net[c][i].method = "GET"
        /\ ~net[c][i].hasBody
        /\ net[c][i].contentType # "" => net[c][i].hasBody
        /\ net[c][i].contentType = ""

\* A get operation of the revision whose doRequest sets the header has sent
\* its request.
C16_Witness ==
    \E c \in Callers :
        /\ rev = "plain"
        /\ args[c].op \in GetOps
        /\ net[c] # << >>
        /\ InFlight(c).method = "GET"

\* C17: an operation returns exactly one of a result and an error.  On
\* every failure (validation, request construction, transport, rejected
\* status, decoding) the result is nil, also when the decoder had already
\* filled part of the envelope; on success the error is nil.
C17_ExactlyOneOfResultAndError ==
    \A c \in Callers :
        Returned(c) =>
            /\ (ret[c].result = << >>) # (ret[c].err = NilError)
            /\ Len(ret[c].result) <= 1
            /\ (resp[c] = << >> \/ Response(c).StatusCode # 200) => ret[c].result = << >>
            /\ ret[c].result # << >> => ret[c].result[1] = target[c]

\* The decoder failed after it had stored fields of the envelope, and the
\* operation returned the error alone.
C17_Witness ==
    \E c \in Callers :
        /\ Returned(c)
        /\ resp[c] # << >>
        /\ Response(c).StatusCode = 200
        /\ target[c] # ZeroResult(frame[c].result)
        /\ ret[c].err # NilError
        /\ ret[c].result = << >>

\* The status of the response is one of those do was told to accept.
Accepted(c, response) ==
    \E i \in 1..Len(frame[c].successStatuses) :
        frame[c].successStatuses[i] = response.StatusCode

\* C18: the status check precedes the decoding.  When the transport
\* answers with a status that is not accepted the result target is left as
\* it was, whatever the body holds, and do returns the API error; without a
\* result target nothing is decoded (an accepted response is a success
\* whatever its body); the target changes only on an accepted status with a
\* target supplied, and an accepted envelope is then decoded into it.
C18_StatusCheckPrecedesDecoding ==
    [][\A c \in Callers :
          (resp[c] = << >> /\ resp'[c] # << >>) =>
              LET response == resp'[c][1]
              IN  /\ ~Accepted(c, response) =>
                        /\ target'[c] = target[c]
                        /\ IsAPIError(ret'[c].err)
                  /\ frame[c].result = "nil" =>
                        /\ target'[c] = target[c]
                        /\ Accepted(c, response) => ret'[c].err = NilError
                  /\ target'[c] # target[c] =>
                        /\ Accepted(c, response)
                        /\ frame[c].result # "nil"
                  /\ (Accepted(c, response) /\ frame[c].result = "list"
                        /\ response.Body = <<"{", "\"", "s", "u", "c", "c", "e", "s", "s", "\"", ":", "t", "r", "u", "e", ",", "\"", "s", "t", "a", "t", "u", "s", "\"", ":", "2", "0", "0", ",", "\"", "d", "a", "t", "a", "\"", ":", "[", "]", "}">>) =>
                        /\ target'[c] # target[c]
                        /\ ret'[c].err = NilError]_vars

\* A rejected status came with a body that is a well-formed envelope of the
\* result, and the target is still the zero value.
C18_Witness ==
    \E c \in Callers :
        /\ Returned(c)
        /\ resp[c] # << >>
        /\ frame[c].result = "list"
        /\ Response(c).StatusCode = 201
        /\ frame[c].successStatuses = <<200>>
        /\ Response(c).Body = <<"{", "\"", "s", "u", "c", "c", "e", "s", "s", "\"", ":", "t", "r", "u", "e", ",", "\"", "s", "t", "a", "t", "u", "s", "\"", ":", "2", "0", "0", ",", "\"", "d", "a", "t", "a", "\"", ":", "[", "]", "}">>
        /\ target[c] = ZeroResult("list")
        /\ IsAPIError(ret[c].err)

\* C19: every client NewClient returns without an error has an
\* effective base URL that is not empty and does not end in "/".
C19_EffectiveBaseURLIsNotEmpty ==
    client.state = "ok" =>
        /\ client.baseURL # << >>
        /\ client.baseURL[Len(client.baseURL)] # "/"

\* C20: when the transport returns a response its body is closed
\* exactly once before do returns, whether the status is rejected, the
\* decoding fails or do succeeds, with or without a result target; nothing is
\* closed while the request is in the transport, nor when the transport
\* returns an error.
C20_BodyIsClosedExactlyOnce ==
    \A c \in Callers :
        /\ pc[c] = "inflight" => closed[c] = 0
        /\ Returned(c) => closed[c] = IF resp[c] # << >> THEN 1 ELSE 0

\* do succeeded without a result target and has closed the body.
C20_Witness ==
    \E c \in Callers :
        /\ Returned(c)
        /\ resp[c] # << >>
        /\ frame[c].result = "nil"
        /\ ret[c].err = NilError
        /\ closed[c] = 1

====
